---- MODULE Spec2Model ----
(***************************************************************************)
(* MuleGuard AI backend: the /upload/ pipeline (graph construction, cycle, *)
(* smurfing and shell-chain detection, consolidation, hybrid scoring,      *)
(* dynamic thresholding, ring pruning) and the persistent suspicion memory *)
(* (table suspicious_history, reached through one SQLAlchemy session per   *)
(* request).                                                               *)
(*                                                                         *)
(* Conventions.  Account ids are the naturals 1, 2, ... (ordered like the  *)
(* strings the code sorts in groupby).  Timestamps are whole hours.  A     *)
(* ring id f"RING_{i:03d}" is the pair <<"RING", i>>.  Raw scores are      *)
(* integers counting millionths of a point; a stored suspicion_score       *)
(* counts hundredths of a point (round(raw_score, 2)).                     *)
(***************************************************************************)
EXTENDS Integers, Sequences, FiniteSets, TLC

VARIABLES
    db,        \* committed rows of suspicious_history, in primary-key order
    run,       \* run[s]: the state of the upload_file call using session s
    started    \* number of upload_file calls started so far

vars == <<db, run, started>>

---------------------------------------------------------------------------
(* Sequence helpers *)

InSeq(x, s) == \E i \in 1..Len(s) : s[i] = x

Last(s) == s[Len(s)]

\* The k-th smallest element of a finite set of integers.
Nth(S, k) == CHOOSE x \in S : Cardinality({y \in S : y <= x}) = k

\* The elements of a finite set of integers in ascending order.
SortedSeq(S) == [k \in 1..Cardinality(S) |-> Nth(S, k)]

\* The concatenation of the sequences ss[lo], ..., ss[hi].
RECURSIVE FlattenRange(_, _, _)
FlattenRange(ss, lo, hi) ==
    IF lo > hi THEN <<>>
    ELSE IF lo = hi THEN ss[lo]
    ELSE LET mid == (lo + hi) \div 2
         IN  FlattenRange(ss, lo, mid) \o FlattenRange(ss, mid + 1, hi)

Flatten(ss) == FlattenRange(ss, 1, Len(ss))

SeqMin(s) == CHOOSE x \in {s[i] : i \in 1..Len(s)} : \A i \in 1..Len(s) : x <= s[i]
SeqMax(s) == CHOOSE x \in {s[i] : i \in 1..Len(s)} : \A i \in 1..Len(s) : x >= s[i]

\* s in ascending order (np.percentile sorts its input).
Sorted(s) == SortSeq(s, LAMBDA a, b : a < b)

\* The positions of s that hold a value for the first / for the last time.
FirstPositions(s) == {i \in 1..Len(s) : \A j \in 1..(i - 1) : s[j] # s[i]}
LastPosition(s, x) == CHOOSE i \in 1..Len(s) :
                          s[i] = x /\ \A j \in (i + 1)..Len(s) : s[j] # x
FirstPosition(s, x) == CHOOSE i \in 1..Len(s) :
                           s[i] = x /\ \A j \in 1..(i - 1) : s[j] # x

\* The distinct elements of s in order of first appearance (pandas unique(),
\* the key order of a Python dict filled in the order of s).
Unique(s) ==
    LET first == SortedSeq(FirstPositions(s))
    IN  [k \in 1..Len(first) |-> s[first[k]]]

---------------------------------------------------------------------------
(* Transaction graph: nx.DiGraph.  add_node keeps the nodes in insertion    *)
(* order; add_edge(u, v, ...) keeps one edge per ordered pair (u, v), at    *)
(* the position of its first insertion and with the attributes of the last. *)

\* The node arguments of the add_node and add_edge calls, in call order.
Endpoints(df) ==
    [k \in 1..(2 * Len(df)) |->
        IF k % 2 = 1 THEN df[(k + 1) \div 2].sender_id
        ELSE df[k \div 2].receiver_id]

Pairs(df) == [i \in 1..Len(df) |-> <<df[i].sender_id, df[i].receiver_id>>]

build_transaction_graph(df) ==
    LET pairs == Pairs(df)
        kept == Unique(pairs)
    IN  [nodes |-> Unique(Endpoints(df)),
         edges |-> [k \in 1..Len(kept) |->
                       LET row == df[LastPosition(pairs, kept[k])]
                       IN  [u |-> kept[k][1], v |-> kept[k][2],
                            amount |-> row.amount,
                            timestamp |-> row.timestamp]]]

number_of_nodes(G) == Len(G.nodes)
number_of_edges(G) == Len(G.edges)

\* G[v]: the successors of v in the order their edges were first added.
Successors(G, v) ==
    LET out == SelectSeq(G.edges, LAMBDA e : e.u = v)
    IN  [k \in 1..Len(out) |-> out[k].v]

in_degree(G, n) == Cardinality({i \in 1..Len(G.edges) : G.edges[i].v = n})
out_degree(G, n) == Cardinality({i \in 1..Len(G.edges) : G.edges[i].u = n})
degree(G, n) == in_degree(G, n) + out_degree(G, n)

---------------------------------------------------------------------------
(* Cycle detector.  nx.simple_cycles yields every simple directed cycle    *)
(* once; its enumeration order and each cycle's rotation are the library's.*)
(* Here a cycle starts at its smallest node and cycles are listed by       *)
(* ascending start node, then in depth-first order of the adjacency lists. *)

RECURSIVE CyclesFrom(_, _, _)
CyclesFrom(G, root, path) ==
    LET succs == Successors(G, Last(path))
        branch(w) ==
            IF w = root THEN <<path>>
            ELSE IF w > root /\ ~InSeq(w, path)
                 THEN CyclesFrom(G, root, Append(path, w))
                 ELSE <<>>
    IN  Flatten([i \in 1..Len(succs) |-> branch(succs[i])])

simple_cycles(G) ==
    LET roots == SortedSeq({G.nodes[i] : i \in 1..Len(G.nodes)})
    IN  Flatten([k \in 1..Len(roots) |-> CyclesFrom(G, roots[k], <<roots[k]>>)])

MinCycleLength == 3
MaxCycleLength == 5

detect_cycles(G, min_length, max_length) ==
    SelectSeq(simple_cycles(G),
              LAMBDA cycle : min_length <= Len(cycle) /\ Len(cycle) <= max_length)

---------------------------------------------------------------------------
(* A Python dict keyed by account_id and filled by d[key] = value for the  *)
(* records of a sequence in order, as the sequence of its values(): the    *)
(* keys stay in the order they were first assigned, each with the value    *)
(* assigned to it last.                                                    *)

AccountIdsOf(records) == [i \in 1..Len(records) |-> records[i].account_id]

DictValues(records) ==
    LET ids == AccountIdsOf(records)
        keys == Unique(ids)
    IN  [k \in 1..Len(keys) |-> records[LastPosition(ids, keys[k])]]

---------------------------------------------------------------------------
(* Ring manager *)

RingId(prefix, i) == <<prefix, i>>

\* assign_ring_ids: ring i is cycle i.  An account's record is created by
\* the first cycle that holds it (with that cycle's ring_id) and gets one
\* "cycle" appended for every cycle that holds it.
assign_ring_ids(cycles) ==
    LET members == Flatten(cycles)
        keys == Unique(members)
        first_cycle(a) == CHOOSE i \in 1..Len(cycles) :
                              /\ InSeq(a, cycles[i])
                              /\ \A j \in 1..(i - 1) : ~InSeq(a, cycles[j])
        times(a) == Cardinality({i \in 1..Len(cycles) : InSeq(a, cycles[i])})
    IN  [rings |-> [i \in 1..Len(cycles) |->
                       [ring_id |-> RingId("RING", i),
                        member_accounts |-> cycles[i],
                        pattern_type |-> "cycle"]],
         accounts |-> [k \in 1..Len(keys) |->
                          [account_id |-> keys[k],
                           detected_patterns |->
                               [n \in 1..times(keys[k]) |-> "cycle"],
                           ring_id |-> RingId("RING", first_cycle(keys[k]))]]]

---------------------------------------------------------------------------
(* Smurfing detector *)

MinSenders == 5
TimeWindowHours == 72

\* df.groupby("receiver_id"): the groups in ascending key order, each with
\* its rows in batch order.
GroupKeys(df) == SortedSeq({df[i].receiver_id : i \in 1..Len(df)})
Group(df, receiver) == SelectSeq(df, LAMBDA row : row.receiver_id = receiver)

unique_senders(group) == Unique([i \in 1..Len(group) |-> group[i].sender_id])

\* The window test with a strict comparison.
SmurfQualifies_strict(group, min_senders, time_window_hours) ==
    LET timestamps == [i \in 1..Len(group) |-> group[i].timestamp]
    IN  /\ Len(unique_senders(group)) >= min_senders
        /\ SeqMax(timestamps) - SeqMin(timestamps) < time_window_hours

\* Lines 20-25: the two tests a receiver's group must pass.
SmurfQualifies(group, min_senders, time_window_hours) ==
    LET timestamps == [i \in 1..Len(group) |-> group[i].timestamp]
    IN  /\ Len(unique_senders(group)) >= min_senders
        /\ SeqMax(timestamps) - SeqMin(timestamps) <= time_window_hours

\* ring_counter when the loop reaches receiver: 1 plus the rings emitted for
\* the receivers before it.
ring_counter(df, receiver, min_senders, time_window_hours) ==
    1 + Cardinality({r \in {df[i].receiver_id : i \in 1..Len(df)} :
                        /\ r < receiver
                        /\ SmurfQualifies(Group(df, r), min_senders,
                                          time_window_hours)})

detect_smurfing(df, min_senders, time_window_hours) ==
    LET flagged == SelectSeq(GroupKeys(df),
                       LAMBDA r : SmurfQualifies(Group(df, r), min_senders,
                                                 time_window_hours))
        ring_id(r) == RingId("SMURF", ring_counter(df, r, min_senders,
                                                   time_window_hours))
        ring_members(r) == Append(unique_senders(Group(df, r)), r)
    IN  [rings |-> [k \in 1..Len(flagged) |->
                       [ring_id |-> ring_id(flagged[k]),
                        member_accounts |-> ring_members(flagged[k]),
                        pattern_type |-> "smurfing"]],
         accounts |-> DictValues(Flatten([k \in 1..Len(flagged) |->
                         [j \in 1..Len(ring_members(flagged[k])) |->
                             [account_id |-> ring_members(flagged[k])[j],
                              detected_patterns |-> <<"smurfing">>,
                              ring_id |-> ring_id(flagged[k])]]]))]

---------------------------------------------------------------------------
(* Shell-chain detector *)

ShellCutoff == 6
ShellMinLength == 4
ShellMaxDegree == 2

\* nx.all_simple_paths(G, source, target, cutoff): the simple paths that
\* extend path to target with at most cutoff edges in all, in depth-first
\* order of the adjacency lists.
RECURSIVE all_simple_paths_from(_, _, _, _)
all_simple_paths_from(G, path, target, cutoff) ==
    LET succs == Successors(G, Last(path))
        branch(w) ==
            IF w = target THEN <<Append(path, w)>>
            ELSE IF ~InSeq(w, path) /\ Len(path) < cutoff
                 THEN all_simple_paths_from(G, Append(path, w), target, cutoff)
                 ELSE <<>>
    IN  Flatten([i \in 1..Len(succs) |-> branch(succs[i])])

all_simple_paths(G, source, target, cutoff) ==
    IF cutoff < 1 THEN <<>>
    ELSE all_simple_paths_from(G, <<source>>, target, cutoff)

\* The degree test applied to every node of the path, end nodes included.
valid_shell_all_nodes(G, path) ==
    \A i \in 1..Len(path) :
        ~(in_degree(G, path[i]) > ShellMaxDegree
          \/ out_degree(G, path[i]) > ShellMaxDegree)

\* Lines 25-31: no intermediate node has in- or out-degree above 2.
valid_shell(G, path) ==
    \A i \in 2..(Len(path) - 1) :
        ~(in_degree(G, path[i]) > ShellMaxDegree
          \/ out_degree(G, path[i]) > ShellMaxDegree)

\* The (source, target) pairs in loop order, source outermost.
ShellPairs(G) ==
    LET n == Len(G.nodes)
    IN  SelectSeq([k \in 1..(n * n) |->
                      <<G.nodes[((k - 1) \div n) + 1], G.nodes[((k - 1) % n) + 1]>>],
                  LAMBDA p : p[1] # p[2])

\* Every path the two loops and all_simple_paths hand to the length test.
ShellCandidates(G, cutoff) ==
    LET pairs == ShellPairs(G)
    IN  Flatten([k \in 1..Len(pairs) |->
                    all_simple_paths(G, pairs[k][1], pairs[k][2], cutoff)])

ShellPaths(G, min_length, cutoff) ==
    SelectSeq(ShellCandidates(G, cutoff),
              LAMBDA path : Len(path) >= min_length /\ valid_shell(G, path))

\* ring_counter advances once per retained path.
shell_chains(G, min_length, cutoff) ==
    LET paths == ShellPaths(G, min_length, cutoff)
    IN  [rings |-> [k \in 1..Len(paths) |->
                       [ring_id |-> RingId("SHELL", k),
                        member_accounts |-> paths[k],
                        pattern_type |-> "shell_chain"]],
         accounts |-> Flatten([k \in 1..Len(paths) |->
                         [j \in 1..Len(paths[k]) |->
                             [account_id |-> paths[k][j],
                              detected_patterns |-> <<"shell_chain">>,
                              ring_id |-> RingId("SHELL", k)]]])]

detect_shell_chains(G, min_length) == shell_chains(G, min_length, ShellCutoff)

---------------------------------------------------------------------------
(* Consolidation (upload_file, lines 110-125) *)

ConcatRings(cycle_out, smurf_out, shell_out) ==
    cycle_out.rings \o smurf_out.rings \o shell_out.rings

ConcatAccounts(cycle_out, smurf_out, shell_out) ==
    cycle_out.accounts \o smurf_out.accounts \o shell_out.accounts

\* unique_accounts[acc["account_id"]] = acc, for acc in suspicious_accounts;
\* then list(unique_accounts.values()).
unique_accounts(suspicious_accounts) == DictValues(suspicious_accounts)

---------------------------------------------------------------------------
(* Graph metrics and anomaly scores.  Degree centrality is computed here.  *)
(* Betweenness, PageRank and the IsolationForest decision function are     *)
(* library results: a run receives them as the record signals, with        *)
(* bet_high = {n : betweenness[n] > 0.05}, pr_high = {n : pagerank[n] >    *)
(* 0.05} and anomaly[n] the decision function in millionths.               *)

\* nx.degree_centrality(G)[n] > 0.1, where the centrality is
\* degree / (len(G) - 1), and 1 for every node when len(G) <= 1.
DegreeHigh(G, n) ==
    /\ InSeq(n, G.nodes)
    /\ IF Len(G.nodes) <= 1 THEN TRUE
       ELSE 10 * degree(G, n) > Len(G.nodes) - 1

---------------------------------------------------------------------------
(* Hybrid scoring engine *)

CycleScore == 50
SmurfAggregatorScore == 45
SmurfFeederScore == 35
SmurfAggregatorCount == 2
ShellScore == 25
AnomalyFactor == 50
DegreeBonus == 5
BetweennessBonus == 10
PageRankBonus == 5
ActivityCount == 5
ActivityBonus == 10
MemoryFactor == 5
HighRisk == 70
MediumRisk == 50

\* n points, in millionths of a point.
Points(n) == n * 1000000

\* round(raw_score, 2): millionths of a point to hundredths of a point (the
\* anomaly values drawn below never put a raw score halfway between two).
Round2(raw) == (raw + 5000) \div 10000

Abs(x) == IF x < 0 THEN -x ELSE x

\* transaction_counts.get(account_id, 0), lines 26-33.
transaction_count(df, account_id) ==
    Cardinality({i \in 1..Len(df) : df[i].sender_id = account_id})
    + Cardinality({i \in 1..Len(df) : df[i].receiver_id = account_id})

Reason(text, n) == [reason |-> text, n |-> n]

\* One iteration of the scoring loop, lines 38-138.  history_record is the
\* row the session's query returned, or NoRecord.
NoRecord == [id |-> 0]

score_account(account, df, G, signals, history_record) ==
    LET account_id == account.account_id
        patterns == account.detected_patterns
        count == transaction_count(df, account_id)
        anomaly_value == IF account_id \in DOMAIN signals.anomaly
                         THEN signals.anomaly[account_id] ELSE 0
        steps == <<
            IF InSeq("cycle", patterns)
                THEN <<Points(CycleScore), <<Reason("cycle", 0)>> >>
                ELSE <<0, <<>> >>,
            IF InSeq("smurfing", patterns)
                THEN IF count > SmurfAggregatorCount
                     THEN <<Points(SmurfAggregatorScore), <<Reason("aggregator", 0)>> >>
                     ELSE <<Points(SmurfFeederScore), <<Reason("feeder", 0)>> >>
                ELSE <<0, <<>> >>,
            IF InSeq("shell_chain", patterns)
                THEN <<Points(ShellScore), <<Reason("shell", 0)>> >>
                ELSE <<0, <<>> >>,
            IF anomaly_value < 0
                THEN <<Abs(anomaly_value) * AnomalyFactor, <<Reason("anomaly", 0)>> >>
                ELSE <<0, <<>> >>,
            IF DegreeHigh(G, account_id)
                THEN <<Points(DegreeBonus), <<Reason("degree", 0)>> >>
                ELSE <<0, <<>> >>,
            IF account_id \in signals.bet_high
                THEN <<Points(BetweennessBonus), <<Reason("betweenness", 0)>> >>
                ELSE <<0, <<>> >>,
            IF account_id \in signals.pr_high
                THEN <<Points(PageRankBonus), <<Reason("pagerank", 0)>> >>
                ELSE <<0, <<>> >>,
            IF count > ActivityCount
                THEN <<Points(ActivityBonus), <<Reason("activity", 0)>> >>
                ELSE <<0, <<>> >>,
            IF history_record # NoRecord
                THEN <<Points(history_record.times_flagged * MemoryFactor),
                       <<Reason("memory", history_record.times_flagged)>> >>
                ELSE <<0, <<>> >>
          >>
        raw_score == steps[1][1] + steps[2][1] + steps[3][1] + steps[4][1]
                     + steps[5][1] + steps[6][1] + steps[7][1] + steps[8][1]
                     + steps[9][1]
        risk_level == IF raw_score >= Points(HighRisk) THEN "HIGH"
                      ELSE IF raw_score >= Points(MediumRisk) THEN "MEDIUM"
                      ELSE "LOW"
    IN  [account_id |-> account_id,
         detected_patterns |-> patterns,
         ring_id |-> account.ring_id,
         suspicion_score |-> Round2(raw_score),
         risk_level |-> risk_level,
         explanation |-> Flatten([k \in 1..9 |-> steps[k][2]])]

---------------------------------------------------------------------------
(* Dynamic threshold and ring pruning (upload_file, lines 147-164) *)

FloorThreshold == 40
PercentileRank == 70

\* 100 * np.percentile(scores, q) (linear interpolation between the two
\* closest ranks of the sorted scores), scores in hundredths of a point.
percentile100(scores, q) ==
    LET sorted == Sorted(scores)
        pos == q * (Len(sorted) - 1)
        lo == (pos \div 100) + 1
        frac == pos % 100
    IN  IF frac = 0 THEN 100 * sorted[lo]
        ELSE 100 * sorted[lo] + frac * (sorted[lo + 1] - sorted[lo])

Scores(suspicious_accounts) ==
    [i \in 1..Len(suspicious_accounts) |-> suspicious_accounts[i].suspicion_score]

\* The threshold without its floor: the percentile alone.
dynamic_threshold100_no_floor(suspicious_accounts) ==
    IF suspicious_accounts # <<>>
    THEN percentile100(Scores(suspicious_accounts), PercentileRank)
    ELSE 100 * 100 * FloorThreshold

\* 100 * dynamic_threshold, in hundredths of a point.
dynamic_threshold100(suspicious_accounts) ==
    LET floor == 100 * 100 * FloorThreshold
    IN  IF suspicious_accounts # <<>>
        THEN LET p == percentile100(Scores(suspicious_accounts), PercentileRank)
             IN  IF p > floor THEN p ELSE floor
        ELSE floor

ClearsThreshold(acc, threshold100) == 100 * acc.suspicion_score >= threshold100

\* The filter with a strict comparison.
filter_accounts_strict(suspicious_accounts) ==
    LET t == dynamic_threshold100(suspicious_accounts)
    IN  SelectSeq(suspicious_accounts, LAMBDA acc : 100 * acc.suspicion_score > t)

filter_accounts(suspicious_accounts) ==
    LET t == dynamic_threshold100(suspicious_accounts)
    IN  SelectSeq(suspicious_accounts, LAMBDA acc : ClearsThreshold(acc, t))

AccountIds(suspicious_accounts) ==
    {suspicious_accounts[i].account_id : i \in 1..Len(suspicious_accounts)}

\* all(...) in place of any(...).
RingSurvives_all(ring, valid_ids) ==
    \A j \in 1..Len(ring.member_accounts) : ring.member_accounts[j] \in valid_ids

RingSurvives(ring, valid_ids) ==
    \E j \in 1..Len(ring.member_accounts) : ring.member_accounts[j] \in valid_ids

clean_rings(fraud_rings, suspicious_accounts) ==
    LET valid_ids == AccountIds(suspicious_accounts)
    IN  SelectSeq(fraud_rings, LAMBDA ring : RingSurvives(ring, valid_ids))

---------------------------------------------------------------------------
(* Persistent memory: table suspicious_history behind SQLAlchemy sessions  *)
(* on SQLite.  A row is [account_id, last_score, times_flagged]; its       *)
(* primary key id is its position in db (autoincrement, rows are never     *)
(* deleted).  account_id carries an index but no uniqueness constraint.    *)
(* Column last_flagged_at (set once, at insert) is read by no operation    *)
(* modelled here and is left out.                                          *)
(*                                                                         *)
(* A session reads the committed rows, overlaid with its own flushed and   *)
(* uncommitted writes.  A flush that has something to write takes SQLite's *)
(* write lock, which a session keeps until it commits or rolls back;       *)
(* reads take no lock that outlives the statement.                         *)

SuspiciousHistory(account_id, last_score, times_flagged) ==
    [account_id |-> account_id, last_score |-> last_score,
     times_flagged |-> times_flagged]

NeedsFlush(r) == r.dirty # {} \/ r.new # <<>>

\* Session.flush() on session state r: UPDATE every dirty object, INSERT
\* every pending one; r.holds says the session holds the write lock.
Flush(r) ==
    LET base == IF r.holds THEN r.txn ELSE db
        updated == [id \in 1..Len(base) |->
                       IF id \in r.dirty THEN r.identity[id] ELSE base[id]]
        newids == (Len(base) + 1)..(Len(base) + Len(r.new))
    IN  IF ~NeedsFlush(r) THEN r
        ELSE [r EXCEPT !.txn = updated \o r.new,
                       !.dirty = {},
                       !.new = <<>>,
                       !.holds = TRUE,
                       !.identity = [id \in DOMAIN r.identity \cup newids |->
                                        IF id \in newids THEN r.new[id - Len(base)]
                                        ELSE r.identity[id]]]

\* What session state r sees after its flush.
View(r) == IF r.holds THEN r.txn ELSE db

\* query(SuspiciousHistory).filter(account_id == key).first() on flushed
\* session state r: the id of the first matching row (0: none).
FirstId(r, key) ==
    LET ids == {id \in 1..Len(View(r)) : View(r)[id].account_id = key}
    IN  IF ids = {} THEN 0 ELSE CHOOSE id \in ids : \A j \in ids : id <= j

\* The object the query returns: the one the identity map already holds for
\* that primary key (not refreshed), else the row as loaded.
Loaded(r, id) == IF id \in DOMAIN r.identity THEN r.identity[id] ELSE View(r)[id]

Record(r, key) ==
    LET id == FirstId(r, key)
    IN  IF id = 0 THEN NoRecord
        ELSE [id |-> id,
              account_id |-> Loaded(r, id).account_id,
              last_score |-> Loaded(r, id).last_score,
              times_flagged |-> Loaded(r, id).times_flagged]

\* The identity map after the query.
Remember(r, key) ==
    LET id == FirstId(r, key)
    IN  IF id = 0 \/ id \in DOMAIN r.identity THEN r
        ELSE [r EXCEPT !.identity =
                 [j \in DOMAIN r.identity \cup {id} |->
                     IF j = id THEN View(r)[id] ELSE r.identity[j]]]

---------------------------------------------------------------------------
(* calculate_suspicion_scores over the whole list: one query per account,  *)
(* each read through the session.                                          *)

\* The identity map after the scoring loop's queries.
RememberAll(r, accounts) ==
    LET ids == {FirstId(r, accounts[i].account_id) : i \in 1..Len(accounts)} \ {0}
    IN  [r EXCEPT !.identity =
            [j \in DOMAIN r.identity \cup ids |->
                IF j \in DOMAIN r.identity THEN r.identity[j] ELSE View(r)[j]]]

calculate_suspicion_scores(r, suspicious_accounts, df, signals) ==
    LET G == build_transaction_graph(df)
    IN  [i \in 1..Len(suspicious_accounts) |->
            score_account(suspicious_accounts[i], df, G, signals,
                          Record(r, suspicious_accounts[i].account_id))]

---------------------------------------------------------------------------
(* Requests.  A batch is the two transfers 1->2->3, a sub-sequence of      *)
(* Catalog and one of the fan-in blocks.  The library signals are drawn    *)
(* for the accounts the scoring reads them for.                            *)

Row(transaction_id, sender_id, receiver_id, amount, timestamp) ==
    [transaction_id |-> transaction_id, sender_id |-> sender_id,
     receiver_id |-> receiver_id, amount |-> amount, timestamp |-> timestamp]

Chain == << Row(1, 1, 2, 900, 0), Row(2, 2, 3, 880, 1) >>

\* 3->1 closes the cycle 1->2->3->1; 3->4 opens the path 1->2->3->4; 3->5
\* gives account 3 a third successor; the last row repeats the transfer 1->2.
Catalog ==
    << Row(3, 3, 1, 860, 2), Row(4, 3, 4, 500, 3), Row(5, 3, 5, 400, 4),
       Row(6, 1, 2, 300, 5) >>

\* Six transfers into account 6 from five senders, the last one at hour last.
FanIn(last) ==
    << Row(11, 1, 6, 90, 0), Row(12, 2, 6, 90, 0), Row(13, 3, 6, 90, 0),
       Row(14, 4, 6, 90, 0), Row(15, 5, 6, 90, 0), Row(16, 5, 6, 90, last) >>

Pick(mask) == SelectSeq(Catalog, LAMBDA row : row.transaction_id \in mask)

BatchesOf(masks, blocks) ==
    {Chain \o Pick(mask) \o block : mask \in masks, block \in blocks}

\* Every batch of the family.
Batches ==
    BatchesOf(SUBSET {3, 4, 5, 6},
              {<<>>, FanIn(TimeWindowHours), FanIn(TimeWindowHours + 1)})

\* The batches replayed over several runs.
FewBatches == BatchesOf(SUBSET {3, 4}, {<<>>, FanIn(TimeWindowHours)})

AnomalyValues == {-123450}

NoSignals == [anomaly |-> <<>>, bet_high |-> {}, pr_high |-> {}]

Lowest(ids) == CHOOSE a \in ids : \A b \in ids : a <= b

\* With contamination 0.1 at most one account of a graph this small falls
\* below the IsolationForest offset.
Signals(ids) ==
    {[anomaly |-> [a \in out |-> v], bet_high |-> bh, pr_high |-> ph] :
        out \in {{}} \cup {{a} : a \in ids}, v \in AnomalyValues,
        bh \in {{}, ids} \cup {{a} : a \in ids}, ph \in {{}, ids}}

FewSignals(ids) ==
    IF ids = {} THEN {NoSignals}
    ELSE {NoSignals, [NoSignals EXCEPT !.bet_high = {Lowest(ids)}]}

---------------------------------------------------------------------------
(* upload_file *)

MaxRuns == 3
Sessions == {1, 2}

NoOutput == [rings |-> <<>>, accounts |-> <<>>]

\* The locals of one upload_file call: pc is the call's position; cycle_out,
\* smurf_out and shell_out are what the three detectors returned and scored
\* is what calculate_suspicion_scores returned.  Where noting is set, past
\* lists what the calls that committed on this session before were given and
\* produced, oldest first.
IdleRun ==
    [pc |-> "idle", df |-> <<>>, signals |-> NoSignals,
     cycle_out |-> NoOutput, smurf_out |-> NoOutput, shell_out |-> NoOutput,
     scored |-> <<>>, noting |-> FALSE, past |-> <<>>,
     fraud_rings |-> <<>>, suspicious_accounts |-> <<>>, i |-> 0,
     identity |-> <<>>, dirty |-> {}, new |-> <<>>, txn |-> <<>>, holds |-> FALSE,
     status |-> 0, summary |-> <<>>, db_before |-> <<>>]

Finished(r) == r.pc \in {"idle", "done", "failed"}

\* Lines 110-125: the three detectors, rings concatenated, accounts deduplicated.
Detect(df) ==
    LET G == build_transaction_graph(df)
        cycle_out == assign_ring_ids(detect_cycles(G, MinCycleLength, MaxCycleLength))
        smurf_out == detect_smurfing(df, MinSenders, TimeWindowHours)
        shell_out == detect_shell_chains(G, ShellMinLength)
    IN  [cycle_out |-> cycle_out, smurf_out |-> smurf_out, shell_out |-> shell_out,
         fraud_rings |-> ConcatRings(cycle_out, smurf_out, shell_out),
         suspicious_accounts |->
             unique_accounts(ConcatAccounts(cycle_out, smurf_out, shell_out))]

\* Lines 64-130: the batch is read and validated, the graph built, the
\* detectors run and the library signals computed.
Upload(s, batches, rich) ==
    /\ started < MaxRuns
    /\ Finished(run[s])
    /\ \E df \in batches :
         \E d \in {Detect(df)} :
           LET ids == AccountIds(d.suspicious_accounts)
           IN  \E sig \in IF rich THEN Signals(ids) ELSE FewSignals(ids) :
               run' = [run EXCEPT ![s] =
                          [IdleRun EXCEPT !.pc = "detected", !.df = df,
                                          !.signals = sig,
                                          !.cycle_out = d.cycle_out,
                                          !.smurf_out = d.smurf_out,
                                          !.shell_out = d.shell_out,
                                          !.fraud_rings = d.fraud_rings,
                                          !.suspicious_accounts = d.suspicious_accounts,
                                          !.db_before = db,
                                          !.noting = run[s].noting,
                                          !.past = run[s].past]]
    /\ started' = started + 1
    /\ UNCHANGED db

\* What is left of a call that raised: the status the client gets.
Raised(r, status) ==
    [IdleRun EXCEPT !.pc = "failed", !.status = status, !.db_before = r.db_before,
                    !.noting = r.noting, !.past = r.past]

\* Lines 79-96: a missing column or an unparseable timestamp is a 400.
Reject(s) ==
    /\ started < MaxRuns
    /\ Finished(run[s])
    /\ run' = [run EXCEPT ![s] = [IdleRun EXCEPT !.pc = "failed", !.status = 400,
                                                 !.db_before = db,
                                                 !.noting = run[s].noting,
                                                 !.past = run[s].past]]
    /\ started' = started + 1
    /\ UNCHANGED db

\* Lines 135-164: the session is opened, the accounts are scored against
\* the memory, filtered by the dynamic threshold, and the rings pruned.
Score(s) ==
    /\ run[s].pc = "detected"
    /\ \E scored \in {calculate_suspicion_scores(run[s], run[s].suspicious_accounts,
                                                  run[s].df, run[s].signals)} :
       LET r == run[s]
           kept == filter_accounts(scored)
       IN  run' = [run EXCEPT ![s] =
                      [RememberAll(r, r.suspicious_accounts) EXCEPT
                          !.pc = "saving",
                          !.scored = scored,
                          !.suspicious_accounts = kept,
                          !.fraud_rings = clean_rings(r.fraud_rings, kept),
                          !.i = 1]]
    /\ UNCHANGED <<db, started>>

\* The session may write: nothing to flush, or no other session holds the
\* write lock.
CanFlush(s) ==
    NeedsFlush(run[s]) => \A o \in Sessions \ {s} : ~run[o].holds

\* One iteration of the history loop, lines 167-180: the query (which first
\* flushes what earlier iterations left pending), then the update or the add.
\* The update branch storing a count of 1.
save_history_reset(r, acc) ==
    LET f == Flush(r)
        record == Record(f, acc.account_id)
        q == Remember(f, acc.account_id)
    IN  IF record # NoRecord
        THEN [q EXCEPT !.identity[record.id] =
                          SuspiciousHistory(record.account_id, acc.suspicion_score, 1),
                       !.dirty = @ \cup {record.id}]
        ELSE [q EXCEPT !.new = Append(@, SuspiciousHistory(acc.account_id,
                                                           acc.suspicion_score, 1))]

\* The update branch without the increment.
save_history_no_increment(r, acc) ==
    LET f == Flush(r)
        record == Record(f, acc.account_id)
        q == Remember(f, acc.account_id)
    IN  IF record # NoRecord
        THEN [q EXCEPT !.identity[record.id] =
                          SuspiciousHistory(record.account_id, acc.suspicion_score,
                                            record.times_flagged),
                       !.dirty = @ \cup {record.id}]
        ELSE [q EXCEPT !.new = Append(@, SuspiciousHistory(acc.account_id,
                                                           acc.suspicion_score, 1))]

save_history(r, acc) ==
    LET f == Flush(r)
        record == Record(f, acc.account_id)
        q == Remember(f, acc.account_id)
    IN  IF record # NoRecord
        THEN [q EXCEPT !.identity[record.id] =
                          SuspiciousHistory(record.account_id, acc.suspicion_score,
                                            record.times_flagged + 1),
                       !.dirty = @ \cup {record.id}]
        ELSE [q EXCEPT !.new = Append(@, SuspiciousHistory(acc.account_id,
                                                           acc.suspicion_score, 1))]

Save(s) ==
    /\ run[s].pc = "saving"
    /\ run[s].i <= Len(run[s].suspicious_accounts)
    /\ CanFlush(s)
    /\ run' = [run EXCEPT ![s] =
                  [save_history(run[s], run[s].suspicious_accounts[run[s].i])
                      EXCEPT !.i = @ + 1]]
    /\ UNCHANGED <<db, started>>

\* What a call was given and what it produced: the batch, the library
\* signals, the scored accounts and the ids of the final account list.
Outcome(r) ==
    [df |-> r.df, signals |-> r.signals, scored |-> r.scored,
     final |-> {r.suspicious_accounts[i].account_id :
                   i \in 1..Len(r.suspicious_accounts)}]

\* Line 182: db.commit() flushes and makes the session's writes the
\* committed table.
Commit(s) ==
    /\ run[s].pc = "saving"
    /\ run[s].i > Len(run[s].suspicious_accounts)
    /\ CanFlush(s)
    /\ LET f == Flush(run[s])
       IN  /\ db' = IF f.holds THEN f.txn ELSE db
           /\ run' = [run EXCEPT ![s] =
                         [f EXCEPT !.pc = "committed", !.holds = FALSE,
                                   !.txn = <<>>, !.identity = <<>>,
                                   !.past = IF f.noting THEN Append(@, Outcome(f))
                                            ELSE @]]
    /\ UNCHANGED started

Summary(r) ==
    LET G == build_transaction_graph(r.df)
    IN  [total_accounts_analyzed |-> number_of_nodes(G),
         total_transactions |-> number_of_edges(G),
         suspicious_accounts_flagged |-> Len(r.suspicious_accounts),
         fraud_rings_detected |-> Len(r.fraud_rings)]

\* Lines 184-207 and the finally clause: the response is built and returned.
Respond(s) ==
    /\ run[s].pc = "committed"
    /\ run' = [run EXCEPT ![s].pc = "done", ![s].status = 200,
                          ![s].summary = Summary(run[s])]
    /\ UNCHANGED <<db, started>>

\* Lines 212-218: an exception raised before the commit has returned (a
\* detector, the scoring, a query, a flush that finds the database locked,
\* the commit itself) becomes a 500; db.close() rolls the session back.
Fail(s) ==
    /\ run[s].pc \in {"detected", "saving"}
    /\ run' = [run EXCEPT ![s] = Raised(run[s], 500)]
    /\ UNCHANGED <<db, started>>

\* Lines 184-207 are inside the same try: an exception raised while the
\* response is built (JSONResponse renders its content when constructed)
\* becomes a 500 as well, after the commit.
RespondError(s) ==
    /\ run[s].pc = "committed"
    /\ run' = [run EXCEPT ![s] = Raised(run[s], 500)]
    /\ UNCHANGED <<db, started>>

---------------------------------------------------------------------------
(* Sequential runs: one upload_file call at a time, on session 1. *)

Init ==
    /\ db = <<>>
    /\ run = [s \in Sessions |-> IdleRun]
    /\ started = 0

Next ==
    \/ Upload(1, FewBatches, FALSE)
    \/ Reject(1)
    \/ Score(1)
    \/ Save(1)
    \/ Commit(1)
    \/ Respond(1)
    \/ Fail(1)
    \/ RespondError(1)

Spec == Init /\ [][Next]_vars

---------------------------------------------------------------------------
(* One run over every batch of the family and every signal choice. *)

NextOne ==
    \/ Upload(1, Batches, TRUE)
    \/ Reject(1)
    \/ Score(1)
    \/ Save(1)
    \/ Commit(1)
    \/ Respond(1)
    \/ Fail(1)
    \/ RespondError(1)

InitOne ==
    /\ db = <<>>
    /\ run = [s \in Sessions |-> IdleRun]
    /\ started = MaxRuns - 1

SpecOne == InitOne /\ [][NextOne]_vars

---------------------------------------------------------------------------
(* Sequential runs whose outcomes are noted, over the batches with the    *)
(* transfer 3->1 or the transfer 3->4, with and without the fan-in block.  *)

RerunBatches == BatchesOf({{3}, {4}}, {<<>>, FanIn(TimeWindowHours)})

InitRerun ==
    /\ db = <<>>
    /\ run = [s \in Sessions |-> [IdleRun EXCEPT !.noting = TRUE]]
    /\ started = 0

NextRerun ==
    \/ Upload(1, RerunBatches, FALSE)
    \/ Reject(1)
    \/ Score(1)
    \/ Save(1)
    \/ Commit(1)
    \/ Respond(1)
    \/ Fail(1)
    \/ RespondError(1)

SpecRerun == InitRerun /\ [][NextRerun]_vars

---------------------------------------------------------------------------
(* Concurrent runs: upload_file calls of two server workers, each with its *)
(* own session on the one SQLite file, interleaved between statements.     *)

\* The batches uploaded concurrently: the cycle 1->2->3->1.
ConcBatches == BatchesOf({{3}}, {<<>>})

NextConc ==
    \E s \in Sessions :
        \/ Upload(s, ConcBatches, FALSE)
        \/ Reject(s)
        \/ Score(s)
        \/ Save(s)
        \/ Commit(s)
        \/ Respond(s)
        \/ Fail(s)
        \/ RespondError(s)

SpecConc == Init /\ [][NextConc]_vars

---------------------------------------------------------------------------
(* The shell-chain detector alone, on the graph of a batch drawn from a    *)
(* family: the chain 1->2->...->n and a choice of side transfers.          *)

MaxChain == 8

ChainRows(n) == [i \in 1..(n - 1) |-> Row(i, i, i + 1, 100, i)]

\* Two transfers out of account 3 and three into account 1.
SideRows ==
    << Row(91, 3, 20, 100, 0), Row(92, 3, 21, 100, 0),
       Row(93, 22, 1, 100, 0), Row(94, 23, 1, 100, 0), Row(95, 24, 1, 100, 0) >>

ShellBatches ==
    {ChainRows(n) \o SelectSeq(SideRows, LAMBDA row : row.transaction_id \in mask) :
        n \in 4..MaxChain, mask \in SUBSET {91, 92, 93, 94, 95}}

InitShell ==
    /\ db = <<>>
    /\ started = 0
    /\ \E df \in ShellBatches :
         run = [s \in Sessions |-> IF s = 1 THEN [IdleRun EXCEPT !.df = df]
                                   ELSE IdleRun]

\* shell_rings, shell_accounts = detect_shell_chains(G)
RunShellDetector ==
    /\ run[1].pc = "idle"
    /\ run' = [run EXCEPT
                  ![1].pc = "shell",
                  ![1].shell_out =
                      detect_shell_chains(build_transaction_graph(run[1].df),
                                          ShellMinLength)]
    /\ UNCHANGED <<db, started>>

NextShell == RunShellDetector

SpecShell == InitShell /\ [][NextShell]_vars

---------------------------------------------------------------------------
(* The smurfing detector alone, on a batch drawn from a family: for each   *)
(* of the receivers 101, 102, ... either no transfer or transfers from 4   *)
(* or 5 senders at hour 0, the last sender's at a later hour.              *)

MaxReceivers == 2

HoursDrawn == {0, TimeWindowHours, TimeWindowHours + 1}

\* senders transfer to receiver at hour 0, the last of them at hour last;
\* with again, sender 1 transfers a second time.
FanInRows(receiver, senders, last, again) ==
    [i \in 1..senders |->
        Row(10 * receiver + i, i, receiver, 90, IF i = senders THEN last ELSE 0)]
    \o (IF again THEN <<Row(10 * receiver, 1, receiver, 90, 0)>> ELSE <<>>)

ReceiverRows(receiver) ==
    {<<>>} \cup {FanInRows(receiver, senders, last, again) :
                    senders \in {MinSenders - 1, MinSenders},
                    last \in HoursDrawn, again \in BOOLEAN}

\* The batches over the receivers 101..(100 + n), the highest receiver's
\* rows first.
RECURSIVE SmurfBatches(_)
SmurfBatches(n) ==
    IF n = 0 THEN {<<>>}
    ELSE {rows \o rest : rows \in ReceiverRows(100 + n), rest \in SmurfBatches(n - 1)}

InitSmurf ==
    /\ db = <<>>
    /\ started = 0
    /\ \E df \in SmurfBatches(MaxReceivers) :
         run = [s \in Sessions |-> IF s = 1 THEN [IdleRun EXCEPT !.df = df]
                                   ELSE IdleRun]

\* smurf_rings, smurf_accounts = detect_smurfing(df)
RunSmurfDetector ==
    /\ run[1].pc = "idle"
    /\ run' = [run EXCEPT
                  ![1].pc = "smurf",
                  ![1].smurf_out =
                      detect_smurfing(run[1].df, MinSenders, TimeWindowHours)]
    /\ UNCHANGED <<db, started>>

NextSmurf == RunSmurfDetector

SpecSmurf == InitSmurf /\ [][NextSmurf]_vars

---------------------------------------------------------------------------
(* Properties of sequential runs (Spec) *)

\* The times_flagged the memory holds for account a in table d: that of the
\* first row the history query would return, 0 when there is none.
TimesFlagged(d, a) ==
    LET ids == {i \in 1..Len(d) : d[i].account_id = a}
    IN  IF ids = {} THEN 0
        ELSE d[CHOOSE i \in ids : \A j \in ids : i <= j].times_flagged

StoredAccounts(d) == {d[i].account_id : i \in 1..Len(d)}

FinalIds(r) == {r.suspicious_accounts[i].account_id :
                   i \in 1..Len(r.suspicious_accounts)}

\* A step that commits a run adds exactly 1 to the times_flagged of every
\* account of the run's final list (a new record starts at 1) and leaves
\* every other account's times_flagged as it was; no other step changes any.
C1_Step ==
    LET committing == run[1].pc = "saving" /\ run'[1].pc = "committed"
        final == FinalIds(run[1])
    IN  \A a \in StoredAccounts(db) \cup StoredAccounts(db') \cup final :
            TimesFlagged(db', a) =
                TimesFlagged(db, a) + (IF committing /\ a \in final THEN 1 ELSE 0)

\* C1: over sequential runs an account's stored times_flagged never
\* decreases; it grows by exactly 1 in each run whose final list holds the
\* account and is unchanged in every other run.
C1_TimesFlaggedMonotone == [][C1_Step]_vars

\* A second run has committed: one account was flagged by both runs, and
\* another account that the first run stored is not in the second run's list.
C1_Witness ==
    /\ run[1].pc = "committed"
    /\ \E i, j \in 1..Len(db) :
         /\ db[i].times_flagged = 2
         /\ db[i].account_id \in FinalIds(run[1])
         /\ j <= Len(run[1].db_before)
         /\ db[j].account_id \notin FinalIds(run[1])
         /\ db[j].times_flagged = run[1].db_before[j].times_flagged

\* C2: a call that failed (the client got an error status) left the memory
\* exactly as it was when the call began.
C2_FailureIsAtomic ==
    \A s \in Sessions :
        run[s].pc = "failed" => db = run[s].db_before

---------------------------------------------------------------------------
(* Properties of one run (SpecOne) *)

Scored(r) == r.pc \in {"saving", "committed", "done"}

\* max(40, 70th percentile of the scores), times 100 * 100; 40 for no scores.
C3_Threshold(scored) ==
    LET p == percentile100(Scores(scored), 70)
    IN  IF scored = <<>> \/ p < 400000 THEN 400000 ELSE p

\* C3: the final account list is exactly the scored accounts whose
\* suspicion_score is at least max(40, 70th percentile of the scores) (40
\* when nothing was scored); no account scored below 40 is in the final
\* list or in the memory.
C3_DynamicThreshold ==
    /\ Scored(run[1]) =>
         /\ run[1].suspicious_accounts =
                SelectSeq(run[1].scored,
                          LAMBDA acc : 100 * acc.suspicion_score
                                           >= C3_Threshold(run[1].scored))
         /\ \A i \in 1..Len(run[1].suspicious_accounts) :
                run[1].suspicious_accounts[i].suspicion_score >= 4000
    /\ \A i \in 1..Len(db) : db[i].last_score >= 4000

\* A finished run whose percentile lies above 40: an account scored 40 or
\* more was dropped, another was kept and stored.
C3_Witness ==
    /\ run[1].pc = "done"
    /\ C3_Threshold(run[1].scored) > 400000
    /\ \E i \in 1..Len(run[1].scored) :
         /\ run[1].scored[i].suspicion_score >= 4000
         /\ run[1].scored[i].account_id \notin FinalIds(run[1])
    /\ \E i \in 1..Len(db) : db[i].account_id \in FinalIds(run[1])

\* The rings the three detectors returned, in the order cycle, smurfing,
\* shell_chain.
DetectedRings(r) == r.cycle_out.rings \o r.smurf_out.rings \o r.shell_out.rings

HasSurvivor(ring, r) ==
    \E j \in 1..Len(ring.member_accounts) : ring.member_accounts[j] \in FinalIds(r)

\* C4: the rings of a run are exactly the detected rings (cycle, then
\* smurfing, then shell_chain, nothing merged) that have a member in the
\* final account list, in that order.
C4_RingPruning ==
    Scored(run[1]) =>
        run[1].fraud_rings =
            SelectSeq(DetectedRings(run[1]), LAMBDA ring : HasSurvivor(ring, run[1]))

\* A finished run in which two detectors returned rings over a common
\* account, one ring was dropped and a kept ring has a member that was
\* dropped from the account list.
C4_Witness ==
    /\ run[1].pc = "done"
    /\ \E ring \in {DetectedRings(run[1])[k] : k \in 1..Len(DetectedRings(run[1]))} :
         ~HasSurvivor(ring, run[1])
    /\ \E k \in 1..Len(run[1].fraud_rings) :
         \E j \in 1..Len(run[1].fraud_rings[k].member_accounts) :
            run[1].fraud_rings[k].member_accounts[j] \notin FinalIds(run[1])
    /\ \E k, l \in 1..Len(run[1].fraud_rings) :
         /\ run[1].fraud_rings[k].pattern_type # run[1].fraud_rings[l].pattern_type
         /\ \E a \in FinalIds(run[1]) :
              /\ InSeq(a, run[1].fraud_rings[k].member_accounts)
              /\ InSeq(a, run[1].fraud_rings[l].member_accounts)

\* The account records the three detectors returned, in the order cycle,
\* smurfing, shell_chain.
DetectedAccounts(r) ==
    r.cycle_out.accounts \o r.smurf_out.accounts \o r.shell_out.accounts

\* C5: the consolidated list holds, for every detected account id, the
\* earliest record the detectors returned for it (its detected_patterns and
\* ring_id), once.
C5_FirstSeenRecord ==
    run[1].pc = "detected" =>
        LET all == DetectedAccounts(run[1])
            ids == AccountIdsOf(all)
            kept == run[1].suspicious_accounts
        IN  /\ Len(kept) = Cardinality({ids[i] : i \in 1..Len(ids)})
            /\ \A k \in 1..Len(kept) :
                 /\ InSeq(kept[k].account_id, ids)
                 /\ kept[k] = all[FirstPosition(ids, kept[k].account_id)]

\* C6: the graph has one edge per transaction record: total_transactions is
\* the number of records of the batch, and every node's in-degree and
\* out-degree count the records it receives and sends.
C6_EdgePerTransaction ==
    run[1].pc = "done" =>
        LET df == run[1].df
            G == build_transaction_graph(df)
        IN  /\ run[1].summary.total_transactions = Len(df)
            /\ \A k \in 1..Len(G.nodes) :
                 /\ in_degree(G, G.nodes[k]) =
                        Cardinality({i \in 1..Len(df) : df[i].receiver_id = G.nodes[k]})
                 /\ out_degree(G, G.nodes[k]) =
                        Cardinality({i \in 1..Len(df) : df[i].sender_id = G.nodes[k]})

\* The detectors found one cycle, of three accounts, and nothing else.
OnlyOneCycle(r) ==
    /\ Len(r.cycle_out.rings) = 1
    /\ Len(r.cycle_out.rings[1].member_accounts) = 3
    /\ r.smurf_out = NoOutput
    /\ r.shell_out = NoOutput

CycleMembers(r) ==
    {r.cycle_out.rings[1].member_accounts[j] : j \in 1..3}

AtLeastMedium(acc) ==
    /\ acc.suspicion_score >= 5000
    /\ acc.risk_level \in {"MEDIUM", "HIGH"}

\* C9 as claimed: a batch whose only pattern is one 3-cycle returns one
\* ring, of type cycle, and exactly the cycle's three accounts, each scored
\* 50 or more and rated MEDIUM or HIGH.
C9_AllThreeReturned ==
    (run[1].pc = "done" /\ OnlyOneCycle(run[1])) =>
        /\ Len(run[1].fraud_rings) = 1
        /\ run[1].fraud_rings[1].pattern_type = "cycle"
        /\ Len(run[1].suspicious_accounts) = 3
        /\ FinalIds(run[1]) = CycleMembers(run[1])
        /\ \A i \in 1..Len(run[1].suspicious_accounts) :
             AtLeastMedium(run[1].suspicious_accounts[i])

\* C9 amended: a batch whose only pattern is one 3-cycle returns one ring,
\* of type cycle; the accounts returned are accounts of the cycle, at least
\* one and each of them once, each scored 50 or more and rated MEDIUM or
\* HIGH; all three are returned when their three scores are equal.
C9_CycleAccountsReturned ==
    (run[1].pc = "done" /\ OnlyOneCycle(run[1])) =>
        /\ Len(run[1].fraud_rings) = 1
        /\ run[1].fraud_rings[1].pattern_type = "cycle"
        /\ run[1].fraud_rings[1].member_accounts
               = run[1].cycle_out.rings[1].member_accounts
        /\ run[1].suspicious_accounts # <<>>
        /\ FinalIds(run[1]) \subseteq CycleMembers(run[1])
        /\ Len(run[1].suspicious_accounts) = Cardinality(FinalIds(run[1]))
        /\ \A i \in 1..Len(run[1].suspicious_accounts) :
             AtLeastMedium(run[1].suspicious_accounts[i])
        /\ (\A i, j \in 1..Len(run[1].scored) :
                run[1].scored[i].suspicion_score = run[1].scored[j].suspicion_score)
             => FinalIds(run[1]) = CycleMembers(run[1])

\* A finished run over a lone 3-cycle whose accounts were scored unequally,
\* with fewer than three of them returned.
C9_Witness ==
    /\ run[1].pc = "done"
    /\ OnlyOneCycle(run[1])
    /\ Len(run[1].scored) = 3
    /\ Len(run[1].suspicious_accounts) < 3
    /\ Len(run[1].fraud_rings) = 1

---------------------------------------------------------------------------
(* Properties of concurrent runs (SpecConc) *)

RowsOf(d, a) == {i \in 1..Len(d) : d[i].account_id = a}

\* C10: when two runs that began on the same memory have both committed,
\* every account both of them flagged has exactly one row, and its
\* times_flagged is 2 more than when they began.
C10_Serialized ==
    (/\ \A s \in Sessions : run[s].pc \in {"committed", "done"}
     /\ run[1].db_before = run[2].db_before) =>
        \A a \in FinalIds(run[1]) \cap FinalIds(run[2]) :
            /\ Cardinality(RowsOf(db, a)) = 1
            /\ TimesFlagged(db, a) = TimesFlagged(run[1].db_before, a) + 2

---------------------------------------------------------------------------
(* Properties of the shell-chain detector (SpecShell) *)

Transfers(df) == {<<df[i].sender_id, df[i].receiver_id>> : i \in 1..Len(df)}

Parties(df) == {df[i].sender_id : i \in 1..Len(df)}
               \cup {df[i].receiver_id : i \in 1..Len(df)}

\* The simple directed paths of k nodes over the transfers of df.
RECURSIVE SimplePaths(_, _)
SimplePaths(df, k) ==
    IF k = 1 THEN {<<n>> : n \in Parties(df)}
    ELSE UNION {{Append(p, w) :
                    w \in {n \in Parties(df) : /\ <<p[k - 1], n>> \in Transfers(df)
                                              /\ ~InSeq(n, p)}} :
                p \in SimplePaths(df, k - 1)}

Payers(df, n) == {t[1] : t \in {u \in Transfers(df) : u[2] = n}}
Payees(df, n) == {t[2] : t \in {u \in Transfers(df) : u[1] = n}}

\* Every node of p but the first and the last pays at most two accounts and
\* is paid by at most two.
QuietInside(df, p) ==
    \A i \in 2..(Len(p) - 1) :
        Cardinality(Payers(df, p[i])) <= 2 /\ Cardinality(Payees(df, p[i])) <= 2

ShellPathsUpTo(df, most) ==
    UNION {{p \in SimplePaths(df, k) : QuietInside(df, p)} : k \in 4..most}

\* The detector emitted one shell_chain ring for exactly the simple paths of
\* 4 to most nodes whose inner nodes are quiet.
ShellRingsAre(r, most) ==
    LET rings == r.shell_out.rings
    IN  /\ {rings[k].member_accounts : k \in 1..Len(rings)}
               = ShellPathsUpTo(r.df, most)
        /\ Len(rings) = Cardinality(ShellPathsUpTo(r.df, most))
        /\ \A k \in 1..Len(rings) : rings[k].pattern_type = "shell_chain"

\* C7 as claimed: one shell_chain ring for exactly the simple paths of at
\* least 4 nodes and at most 7 edges (8 nodes) whose every intermediate node
\* has in-degree and out-degree at most 2.
C7_UpToSevenEdges == run[1].pc = "shell" => ShellRingsAre(run[1], 8)

\* C7 amended: one shell_chain ring for exactly the simple paths of at least
\* 4 nodes and at most 6 edges (7 nodes) whose every intermediate node has
\* in-degree and out-degree at most 2.
C7_UpToSixEdges == run[1].pc = "shell" => ShellRingsAre(run[1], 7)

\* The detector ran on a graph with a quiet simple path of 8 nodes: it
\* reported a path of 7 nodes, and left out a path of 4 nodes that runs
\* through an account with three payees.
C7_Witness ==
    /\ run[1].pc = "shell"
    /\ \E p \in SimplePaths(run[1].df, 8) : QuietInside(run[1].df, p)
    /\ \E k \in 1..Len(run[1].shell_out.rings) :
         Len(run[1].shell_out.rings[k].member_accounts) = 7
    /\ \E p \in SimplePaths(run[1].df, 4) : ~QuietInside(run[1].df, p)

---------------------------------------------------------------------------
(* Properties of the smurfing detector (SpecSmurf) *)

Receivers(df) == {df[i].receiver_id : i \in 1..Len(df)}

SendersTo(df, receiver) ==
    {df[i].sender_id : i \in {j \in 1..Len(df) : df[j].receiver_id = receiver}}

\* No two transfers to receiver lie more than hours apart.
WithinHours(df, receiver, hours) ==
    \A i, j \in 1..Len(df) :
        (df[i].receiver_id = receiver /\ df[j].receiver_id = receiver)
            => df[i].timestamp - df[j].timestamp <= hours

Smurfed(df) ==
    {receiver \in Receivers(df) :
        /\ Cardinality(SendersTo(df, receiver)) >= 5
        /\ WithinHours(df, receiver, 72)}

MembersOf(ring) == {ring.member_accounts[j] : j \in 1..Len(ring.member_accounts)}

\* C8: the detector emits one smurfing ring for each receiver with at least
\* 5 distinct senders whose transfers span at most 72 hours, and none for
\* any other receiver; a ring's members are the receiver's distinct senders
\* and the receiver; the k-th ring emitted is numbered k.
C8_SmurfRings ==
    run[1].pc = "smurf" =>
        LET rings == run[1].smurf_out.rings
            df == run[1].df
        IN  /\ Len(rings) = Cardinality(Smurfed(df))
            /\ \A receiver \in Smurfed(df) :
                 \E k \in 1..Len(rings) :
                    /\ Last(rings[k].member_accounts) = receiver
                    /\ MembersOf(rings[k]) = SendersTo(df, receiver) \cup {receiver}
                    /\ Len(rings[k].member_accounts)
                           = Cardinality(SendersTo(df, receiver)) + 1
            /\ \A k \in 1..Len(rings) :
                 /\ rings[k].ring_id = <<"SMURF", k>>
                 /\ rings[k].pattern_type = "smurfing"

\* The detector ran on a batch in which one receiver's transfers span
\* exactly 72 hours and got ring 1, and a lower-numbered receiver with 5
\* senders over 73 hours, or with 5 transfers from 4 senders, got none.
C8_Witness ==
    /\ run[1].pc = "smurf"
    /\ Len(run[1].smurf_out.rings) = 1
    /\ \E i, j \in 1..Len(run[1].df) :
         /\ run[1].df[i].receiver_id = Last(run[1].smurf_out.rings[1].member_accounts)
         /\ run[1].df[j].receiver_id = run[1].df[i].receiver_id
         /\ run[1].df[i].timestamp - run[1].df[j].timestamp = 72
    /\ \E receiver \in Receivers(run[1].df) \ Smurfed(run[1].df) :
         receiver < Last(run[1].smurf_out.rings[1].member_accounts)

---------------------------------------------------------------------------
(* Properties of re-runs (SpecRerun) *)

ScoreOf(scored, a) ==
    scored[CHOOSE i \in 1..Len(scored) : scored[i].account_id = a].suspicion_score

\* The run r, now scored, was given the batch and the signals of the earlier
\* run whose outcome is before; every account the earlier run kept is kept
\* again and scores 5 points more, every account it dropped scores the same.
Restabilised(r, before) ==
    (r.df = before.df /\ r.signals = before.signals) =>
        /\ AccountIdsOf(r.scored) = AccountIdsOf(before.scored)
        /\ \A i \in 1..Len(before.scored) :
             LET a == before.scored[i].account_id
             IN  IF a \in before.final
                 THEN /\ a \in FinalIds(r)
                      /\ ScoreOf(r.scored, a) = before.scored[i].suspicion_score + 500
                 ELSE ScoreOf(r.scored, a) = before.scored[i].suspicion_score

\* C11 as claimed: when a batch is processed again in any later sequential
\* run, every account of the earlier run's final list is in the later run's
\* final list with a score exactly 5 higher, and every account the earlier
\* run dropped has the score it had.
C11_AnyLaterRun ==
    Scored(run[1]) =>
        \A k \in 1..Len(run[1].past) \ {IF run[1].pc = "saving" THEN 0
                                        ELSE Len(run[1].past)} :
            Restabilised(run[1], run[1].past[k])

\* The outcome of the run that committed last before the current run.
Previous(r) ==
    IF r.pc = "saving" THEN r.past[Len(r.past)] ELSE r.past[Len(r.past) - 1]

HasPrevious(r) == Len(r.past) >= (IF r.pc = "saving" THEN 1 ELSE 2)

\* C11 amended: when a batch is processed again in the next sequential run
\* (no run committed in between), every account of the earlier run's final
\* list is in the later run's final list with a score exactly 5 higher, and
\* every account the earlier run dropped has the score it had.
C11_NextRun ==
    (Scored(run[1]) /\ HasPrevious(run[1])) =>
        Restabilised(run[1], Previous(run[1]))

\* A batch was run on a memory that was not empty and run again at once:
\* the first of the two runs kept an account and dropped another.
C11_Witness ==
    /\ run[1].pc = "saving"
    /\ Len(run[1].past) >= 2
    /\ Previous(run[1]).df = run[1].df
    /\ Previous(run[1]).signals = run[1].signals
    /\ Previous(run[1]).final # {}
    /\ \E i \in 1..Len(run[1].scored) :
         run[1].scored[i].account_id \notin Previous(run[1]).final

====
